---- MODULE Spec2Model ----
(***************************************************************************)
(* Quinta do Lago tee-time search: the record processor, the API client    *)
(* with its retry policy, and the search orchestrator driven by main.      *)
(*                                                                         *)
(* Strings that the program orders or formats (dates, times, course names) *)
(* are sequences of character codes, compared the way Python compares str. *)
(* Course identifiers and column names are opaque and stay TLA+ strings.   *)
(***************************************************************************)
EXTENDS Integers, Sequences, FiniteSets, TLC

VARIABLES
    \* ---- record processor: format_tee_times --------------------------------
    fpc,            \* "idle" | "input" | "done"
    fResponse,      \* the CourseAvailabilityResponse handed to format_tee_times
    fDate,          \* the search date handed to format_tee_times
    fRecords,       \* what qdl.data_processor.format_tee_times returned
    fLegacy,        \* what main.py's format_tee_times did on the same input
    \* ---- record processor: records_to_dataframe ----------------------------
    rpc,            \* "idle" | "input" | "done"
    rRecords,       \* the list of records handed to records_to_dataframe
    rPermuted,      \* the same records in another order
    rDf,            \* records_to_dataframe(rRecords)
    rDfPermuted,    \* records_to_dataframe(rPermuted)
    \* ---- API client: one fetch_tee_times call -------------------------------
    cpc,            \* "idle" | "sending" | "returned" | "raised"
    requests,       \* HTTP requests sent so far for this call
    retry_total,    \* what is left of Retry.total
    last,           \* the server's reply to the last request
    cBody,          \* the body of a 200 reply, as parsed by response.json()
    cResult,        \* what the call returned or raised
    cErrors,        \* QDLAPIErrors the call has raised
    \* ---- main and fetch_all_tee_times --------------------------------------
    pc,             \* "idle" | "main" | "validated" | "search" | "found"
                    \*   | "exit0" | "exit1"
    today,          \* date.today(), as a day number
    params,         \* the SearchParameters after the CLI overrides
    session,        \* the API client: "none" | "open" | "closed"
    date_range,     \* fetch_all_tee_times' list of date strings
    times,          \* fetch_all_tee_times' list of time strings
    position,       \* the cell the three loops are at: [d, t, c]
    calls,          \* the fetch_tee_times calls made, in order
    failed,         \* the calls (by number) that raised QDLAPIError
    all_records,
    total_requests,
    completed_requests,
    progress,       \* the "Progress: completed/total" lines printed
    df              \* what fetch_all_tee_times returned

formatVars   == <<fpc, fResponse, fDate, fRecords, fLegacy>>
finalizeVars == <<rpc, rRecords, rPermuted, rDf, rDfPermuted>>
clientVars   == <<cpc, requests, retry_total, last, cBody, cResult, cErrors>>
searchVars   == <<pc, today, params, session, date_range, times, position, calls,
                  failed, all_records, total_requests, completed_requests,
                  progress, df>>
vars == <<formatVars, finalizeVars, clientVars, searchVars>>

-----------------------------------------------------------------------------
(* Bounds of the model *)

MaxSlots == 2       \* slots in one response handed to format_tee_times
MaxRecs  == 3       \* records handed to records_to_dataframe
MaxBodySlots == 2   \* entries of `availabilities` in a response body
MaxDay   == 2       \* the days a run can name are 0..MaxDay
MaxFail  == 2       \* cells of one search whose fetch raises
SlotsPerQuery == 2  \* slots the provider returns for one query

-----------------------------------------------------------------------------
(* Strings *)

Digit(n) == 48 + n
Pad2(n) == <<Digit((n \div 10) % 10), Digit(n % 10)>>
Pad4(n) == Pad2(n \div 100) \o Pad2(n % 100)

\* Python's str "<" : lexicographic on code points, a proper prefix is smaller
RECURSIVE StrLess(_, _)
StrLess(a, b) ==
    IF b = <<>> THEN FALSE
    ELSE IF a = <<>> THEN TRUE
    ELSE IF Head(a) < Head(b) THEN TRUE
    ELSE IF Head(a) > Head(b) THEN FALSE
    ELSE StrLess(Tail(a), Tail(b))

\* f"{hour:02d}:00"
TimeStr(hour) == Pad2(hour) \o <<58, 48, 48>>

\* The calendar around the month end the model's days fall in: day 0 is
\* 2025-09-29, and September has 30 days.
CalendarDate(day) ==
    IF 29 + day <= 30 THEN [y |-> 2025, m |-> 9, d |-> 29 + day]
    ELSE [y |-> 2025, m |-> 10, d |-> day - 1]

\* strftime("%Y-%m-%d")
DateStr(day) ==
    LET c == CalendarDate(day)
    IN  Pad4(c.y) \o <<45>> \o Pad2(c.m) \o <<45>> \o Pad2(c.d)

Sul         == <<83, 117, 108>>
Norte       == <<78, 111, 114, 116, 101>>
Laranjal    == <<76, 97, 114, 97, 110, 106, 97, 108>>
SouthCourse == <<83, 111, 117, 116, 104, 32, 67, 111, 117, 114, 115, 101>>
NorthCourse == <<78, 111, 114, 116, 104, 32, 67, 111, 117, 114, 115, 101>>
Gramacho    == <<71, 114, 97, 109, 97, 99, 104, 111>>   \* a name outside the map

COURSE_NAME_MAP ==
    (Sul :> SouthCourse) @@ (Norte :> NorthCourse) @@ (Laranjal :> Laranjal)

-----------------------------------------------------------------------------
(* Record processor: qdl/data_processor.py *)

TeeTimeRecord(date, time, course, price, players, start_hole) ==
    [date |-> date, time |-> time, course |-> course,
     price |-> price, players |-> players, start_hole |-> start_hole]

\* the three-way rule of main.py, the script the processor was written from
LegacyStartHole(start_nine) ==
    IF start_nine = 1 THEN 1 ELSE IF start_nine = 2 THEN 10 ELSE 1

StartHole(start_nine) == IF start_nine = 1 THEN 1 ELSE 10

CourseDisplayName(name) ==
    IF name \in DOMAIN COURSE_NAME_MAP THEN COURSE_NAME_MAP[name] ELSE name

format_tee_times(response, search_date) ==
    [i \in 1..Len(response.availabilities) |->
        TeeTimeRecord(search_date,
                      response.availabilities[i].time,
                      CourseDisplayName(response.name),
                      response.availabilities[i].price,
                      response.availabilities[i].players,
                      StartHole(response.availabilities[i].start_nine))]

\* main.py: COURSE_NAME_MAP[data["name"]] raises KeyError for an unknown name
legacy_format_tee_times(data, date) ==
    IF data.name \notin DOMAIN COURSE_NAME_MAP
    THEN [raised |-> "KeyError", records |-> <<>>]
    ELSE [raised |-> "",
          records |->
            [i \in 1..Len(data.availabilities) |->
                TeeTimeRecord(date,
                              data.availabilities[i].time,
                              COURSE_NAME_MAP[data.name],
                              data.availabilities[i].price,
                              data.availabilities[i].players,
                              LegacyStartHole(data.availabilities[i].start_nine))]]

Columns == <<"date", "time", "course", "price", "players", "start_hole">>

SortKey(r) == <<r.date, r.time, r.course>>

KeyLessDateTimeOnly(r, s) ==
    \/ StrLess(r.date, s.date)
    \/ r.date = s.date /\ StrLess(r.time, s.time)

\* r sorts strictly before s under sort_values(["date", "time", "course"])
KeyLess(r, s) ==
    \/ StrLess(r.date, s.date)
    \/ r.date = s.date /\ StrLess(r.time, s.time)
    \/ r.date = s.date /\ r.time = s.time /\ StrLess(r.course, s.course)

SameRowOnKeyOnly(r, s) == SortKey(r) = SortKey(s)

\* DataFrame.drop_duplicates(): rows equal in every column
SameRow(r, s) == r = s

\* drop_duplicates keeps the first of equal rows, in input order
RECURSIVE drop_duplicates(_)
drop_duplicates(rows) ==
    IF rows = <<>> THEN <<>>
    ELSE LET init == drop_duplicates(SubSeq(rows, 1, Len(rows) - 1))
             row  == rows[Len(rows)]
         IN  IF \E i \in 1..Len(init) : SameRow(init[i], row)
             THEN init
             ELSE Append(init, row)

\* one row put into an already sorted sequence after every row that does not
\* sort after it: rows that tie on the key keep their input order
RECURSIVE InsertSorted(_, _)
InsertSorted(row, sorted) ==
    IF sorted = <<>> THEN <<row>>
    ELSE IF KeyLess(row, sorted[Len(sorted)])
         THEN Append(InsertSorted(row, SubSeq(sorted, 1, Len(sorted) - 1)),
                     sorted[Len(sorted)])
         ELSE Append(sorted, row)

SortValuesLeavesOrder(rows) == rows

\* sort_values(["date", "time", "course"]): a lexsort over the key columns,
\* which is stable
RECURSIVE sort_values(_)
sort_values(rows) ==
    IF rows = <<>> THEN <<>>
    ELSE InsertSorted(rows[Len(rows)],
                      sort_values(SubSeq(rows, 1, Len(rows) - 1)))

DataFrame(rows) == [columns |-> Columns, rows |-> rows]

\* no frame yet: nothing has been returned
NoFrame == [columns |-> <<>>, rows |-> <<>>]

records_to_dataframe(records) ==
    IF records = <<>>
    THEN DataFrame(<<>>)
    ELSE DataFrame(sort_values(drop_duplicates(records)))

-----------------------------------------------------------------------------
(* Inputs of the record processor *)

SeqsUpTo(S, n) == UNION {[1..k -> S] : k \in 0..n}

\* slots of a validated response: time str, price float, players int,
\* start_nine any int
SlotTimes == {TimeStr(9), TimeStr(10)}
Slots ==
    [time : SlotTimes, price : {5000, 6000}, players : {2}, start_nine : {0, 1, 2, 3}]

Responses ==
    [name : {Sul, Laranjal, Gramacho}, availabilities : SeqsUpTo(Slots, MaxSlots)]

\* records that differ pairwise in each of the six fields, and several that
\* share (date, time, course)
KeyRecords ==
    {TeeTimeRecord(DateStr(d), t, c, 5000, 2, 1) :
        d \in {1, 2}, t \in SlotTimes, c \in {Laranjal, NorthCourse}}
TiedRecords ==
    {TeeTimeRecord(DateStr(1), TimeStr(9), Laranjal, p, n, h) :
        p \in {5000, 6000}, n \in {2, 4}, h \in {1, 10}}
RecordUniverse == KeyRecords \cup TiedRecords

Orderings(n) ==
    {p \in [1..n -> 1..n] : \A i, j \in 1..n : i # j => p[i] # p[j]}

Permuted(s, p) == [i \in 1..Len(s) |-> s[p[i]]]

-----------------------------------------------------------------------------
(* Response model: qdl/models.py, validated by pydantic in its default (lax) *)
(* mode.  A JSON value is [k |-> its JSON type, v |-> its value]: a string's *)
(* characters, an integer, or a float held in hundredths.  Prices are held   *)
(* in hundredths throughout.                                                 *)

JStr(chars)        == [k |-> "str", v |-> chars]
JInt(n)            == [k |-> "int", v |-> n]
JFloat(hundredths) == [k |-> "float", v |-> hundredths]
JNull              == [k |-> "null", v |-> 0]
JArray             == [k |-> "array", v |-> 0]
JAbsent            == [k |-> "absent", v |-> 0]

IsDigits(chars) ==
    /\ chars # <<>>
    /\ \A i \in 1..Len(chars) : chars[i] \in 48..57

RECURSIVE ParseDigits(_)
ParseDigits(chars) ==
    IF chars = <<>> THEN 0
    ELSE 10 * ParseDigits(SubSeq(chars, 1, Len(chars) - 1))
         + (chars[Len(chars)] - 48)

Valid(v) == [ok |-> TRUE, v |-> v]
Invalid  == [ok |-> FALSE, v |-> 0]

\* a `str` field takes a string and nothing else
validate_str(j) == IF j.k = "str" THEN Valid(j.v) ELSE Invalid

\* an `int` field takes an integer, a float without fraction, or a string of
\* digits
validate_int(j) ==
    CASE j.k = "int" -> Valid(j.v)
      [] j.k = "float" -> IF j.v % 100 = 0 THEN Valid(j.v \div 100) ELSE Invalid
      [] j.k = "str" -> IF IsDigits(j.v) THEN Valid(ParseDigits(j.v)) ELSE Invalid
      [] OTHER -> Invalid

validate_float_numbers_only(j) ==
    CASE j.k = "int" -> Valid(100 * j.v)
      [] j.k = "float" -> Valid(j.v)
      [] OTHER -> Invalid

\* a `float` field takes a float, an integer, or a string of digits
validate_float(j) ==
    CASE j.k = "int" -> Valid(100 * j.v)
      [] j.k = "float" -> Valid(j.v)
      [] j.k = "str" ->
            IF IsDigits(j.v) THEN Valid(100 * ParseDigits(j.v)) ELSE Invalid
      [] OTHER -> Invalid

\* TeeTimeAvailability: four required fields
validate_slot(item) ==
    LET time       == validate_str(item.time)
        price      == validate_float(item.price)
        players    == validate_int(item.players)
        start_nine == validate_int(item.start_nine)
    IN  IF item.k = "object" /\ time.ok /\ price.ok /\ players.ok /\ start_nine.ok
        THEN Valid([time |-> time.v, price |-> price.v,
                    players |-> players.v, start_nine |-> start_nine.v])
        ELSE Invalid

\* CourseAvailabilityResponse.model_validate: `name` is required,
\* `availabilities` defaults to the empty list
model_validate(data) ==
    LET name  == validate_str(data.name)
        slots == [i \in 1..Len(data.availabilities.items) |->
                    validate_slot(data.availabilities.items[i])]
    IN  IF data.shape # "object" \/ ~ name.ok THEN Invalid
        ELSE IF data.availabilities.k = "absent"
             THEN Valid([name |-> name.v, availabilities |-> <<>>])
        ELSE IF data.availabilities.k = "array"
                /\ \A i \in 1..Len(slots) : slots[i].ok
             THEN Valid([name |-> name.v,
                         availabilities |-> [i \in 1..Len(slots) |-> slots[i].v]])
        ELSE Invalid

-----------------------------------------------------------------------------
(* API client: qdl/api_client.py *)

\* Retry(total=3, ...): retries allowed after the first request
RETRY_TOTAL == 3
status_forcelist == {429, 500, 502, 503, 504}
\* the statuses whose Retry-After header the Retry object respects
RETRY_AFTER_STATUS_CODES == {413, 429, 503}

is_retry_without_forcelist(status, has_retry_after, total) ==
    total > 0 /\ has_retry_after /\ status \in RETRY_AFTER_STATUS_CODES

\* Retry.is_retry for a GET, which allowed_methods lets through
is_retry(status, has_retry_after, total) ==
    \/ status \in status_forcelist
    \/ total > 0 /\ has_retry_after /\ status \in RETRY_AFTER_STATUS_CODES

NoResponse == [name |-> <<>>, availabilities |-> <<>>]
NoResult   == [kind |-> "none", cause |-> "", response |-> NoResponse]
Returned(response) == [kind |-> "response", cause |-> "", response |-> response]
QDLAPIError(cause) == [kind |-> "QDLAPIError", cause |-> cause, response |-> NoResponse]

NoReply  == [kind |-> "none", status |-> 0, retry_after |-> FALSE]
NetworkError == [kind |-> "neterr", status |-> 0, retry_after |-> FALSE]
HttpReply(status, retry_after) ==
    [kind |-> "http", status |-> status, retry_after |-> retry_after]

Statuses == {200, 404, 413} \cup status_forcelist
Replies ==
    {NetworkError} \cup {HttpReply(s, ra) : s \in Statuses, ra \in BOOLEAN}

\* bodies: one well-formed slot, and slots with one field changed
GoodSlot ==
    [k |-> "object", time |-> JStr(TimeStr(9)), price |-> JInt(50),
     players |-> JInt(2), start_nine |-> JInt(1)]
JsonValues ==
    {JStr(TimeStr(9)), JStr(<<53, 48>>), JInt(2), JFloat(200), JFloat(250),
     JNull, JArray, JAbsent}
BodyItems ==
    {GoodSlot, [GoodSlot EXCEPT !.k = "null"]}
    \cup {[GoodSlot EXCEPT !.time = v] : v \in JsonValues}
    \cup {[GoodSlot EXCEPT !.price = v] : v \in JsonValues}
    \cup {[GoodSlot EXCEPT !.players = v] : v \in JsonValues}
    \cup {[GoodSlot EXCEPT !.start_nine = v] : v \in JsonValues}
JsonList(items) == [k |-> "array", items |-> items]
NoList(kind)    == [k |-> kind, items |-> <<>>]
NoBody == [shape |-> "none", name |-> JAbsent, availabilities |-> NoList("absent")]
Bodies ==
    {[shape |-> sh, name |-> JStr(Sul), availabilities |-> JsonList(<<GoodSlot>>)] :
        sh \in {"notjson", "array"}}
    \cup {[shape |-> "object", name |-> n, availabilities |-> JsonList(items)] :
            n \in JsonValues, items \in {<<>>, <<GoodSlot>>}}
    \cup {[shape |-> "object", name |-> JStr(Sul), availabilities |-> NoList(kind)] :
            kind \in {"absent", "null", "str", "object"}}
    \cup {[shape |-> "object", name |-> JStr(Sul), availabilities |-> JsonList(items)] :
            items \in SeqsUpTo(BodyItems, MaxBodySlots)}

-----------------------------------------------------------------------------
(* Configuration and CLI: qdl/config.py, qdl/cli.py *)

COURSE_IDS ==
    <<"35130-201-0000000001", "35130-201-0000000002", "35130-201-0000000003">>

course_map ==
    [south |-> "35130-201-0000000001",
     north |-> "35130-201-0000000002",
     laranjal |-> "35130-201-0000000003"]

parse_course_selection(course_args) ==
    IF \E i \in 1..Len(course_args) : course_args[i] = "all"
    THEN COURSE_IDS
    ELSE LET known(c) == c \in DOMAIN course_map
             kept == SelectSeq(course_args, known)
         IN  [i \in 1..Len(kept) |-> course_map[kept[i]]]

\* SearchParameters(...): the field constraints of qdl/models.py, checked
\* when the object is built and not when a field is assigned later
SearchParametersValid(start_hour, end_hour, n_players) ==
    /\ start_hour >= 0 /\ start_hour <= 23
    /\ end_hour >= 0 /\ end_hour <= 23
    /\ n_players >= 1 /\ n_players <= 4

SearchParameters(start_date, end_date, start_hour, end_hour, n_players, course_ids) ==
    [built |-> TRUE, start_date |-> start_date, end_date |-> end_date,
     start_hour |-> start_hour, end_hour |-> end_hour,
     n_players |-> n_players, course_ids |-> course_ids]

NoParams ==
    [built |-> FALSE, start_date |-> 0, end_date |-> 0, start_hour |-> 0,
     end_hour |-> 0, n_players |-> 0, course_ids |-> <<>>]

validate_date_range(start_date, end_date, now) ==
    IF start_date > end_date THEN "ValueError"
    ELSE IF start_date < now THEN "ValueError"
    ELSE ""

\* what a run is started with: the settings (defaults or QDL_* environment)
\* and the command line
Days  == 0..MaxDay
Hours == 9..10
Settings ==
    [start_date : Days, end_date : Days,
     start_hour : Hours \cup {24}, end_hour : Hours \cup {24}, n_players : {4}]
DateArgs ==
    {[kind |-> "none", day |-> 0], [kind |-> "malformed", day |-> 0]}
    \cup {[kind |-> "iso", day |-> d] : d \in Days}
HourArgs == {[given |-> FALSE, hour |-> 0]} \cup {[given |-> TRUE, hour |-> h] : h \in Hours}
CommandLines ==
    [start_date : DateArgs, end_date : DateArgs,
     start_hour : HourArgs, end_hour : HourArgs,
     players : {0, 2},
     courses : {<<"all">>, <<"south">>, <<"north", "south">>}]

-----------------------------------------------------------------------------
(* The provider, as the search sees it: a query for an hour returns the      *)
(* SlotsPerQuery hourly slots from that hour on, so neighbouring queries      *)
(* return some of the same slots.                                             *)

ProviderName(course_id) ==
    CASE course_id = "35130-201-0000000001" -> Sul
      [] course_id = "35130-201-0000000002" -> Norte
      [] OTHER -> Laranjal

ProviderSlot(hour, n_players) ==
    [time |-> TimeStr(hour), price |-> 5000, players |-> n_players,
     start_nine |-> 1 + (hour % 2)]

ProviderResponse(hour, course_id, n_players) ==
    [name |-> ProviderName(course_id),
     availabilities |->
        [k \in 1..SlotsPerQuery |-> ProviderSlot(hour + k - 1, n_players)]]

-----------------------------------------------------------------------------
(* Search orchestrator: fetch_all_tee_times in qdl/cli.py *)

\* pd.date_range(start, end).strftime("%Y-%m-%d").tolist()
DateRange(start_date, end_date) ==
    [i \in 1..(end_date - start_date + 1) |-> DateStr(start_date + i - 1)]

\* [f"{hour:02d}:00" for hour in range(start_hour, end_hour + 1)]
TimeRange(start_hour, end_hour) ==
    [i \in 1..(end_hour - start_hour + 1) |-> TimeStr(start_hour + i - 1)]

Cell(d, t, c) == [d |-> d, t |-> t, c |-> c]
NoCell == Cell(0, 0, 0)

\* the first cell the three nested loops reach, if any loop body runs at all
FirstCell(nDates, nTimes, nCourses) ==
    IF nDates = 0 \/ nTimes = 0 \/ nCourses = 0 THEN NoCell ELSE Cell(1, 1, 1)

NextCellCourseOutermost(cell, nDates, nTimes, nCourses) ==
    IF cell.d < nDates THEN Cell(cell.d + 1, cell.t, cell.c)
    ELSE IF cell.t < nTimes THEN Cell(1, cell.t + 1, cell.c)
    ELSE IF cell.c < nCourses THEN Cell(1, 1, cell.c + 1)
    ELSE NoCell

\* for search_date in date_range: for time_slot in times: for course_id in ...
NextCell(cell, nDates, nTimes, nCourses) ==
    IF cell.c < nCourses THEN Cell(cell.d, cell.t, cell.c + 1)
    ELSE IF cell.t < nTimes THEN Cell(cell.d, cell.t + 1, 1)
    ELSE IF cell.d < nDates THEN Cell(cell.d + 1, 1, 1)
    ELSE NoCell

CatchesNothing(exception) == FALSE

\* except QDLAPIError as e
Catches(exception) == exception = "QDLAPIError"

ReportsEveryCell(completed) == TRUE

\* if completed_requests % 10 == 0: print(f"Progress: ...")
ReportsProgress(completed) == completed % 10 = 0

-----------------------------------------------------------------------------
(* The parts of the state a specification leaves alone *)

FormatIdle ==
    /\ fpc = "idle"
    /\ fResponse = [name |-> <<>>, availabilities |-> <<>>]
    /\ fDate = <<>>
    /\ fRecords = <<>>
    /\ fLegacy = [raised |-> "", records |-> <<>>]

FinalizeIdle ==
    /\ rpc = "idle"
    /\ rRecords = <<>>
    /\ rPermuted = <<>>
    /\ rDf = DataFrame(<<>>)
    /\ rDfPermuted = DataFrame(<<>>)

ClientIdle ==
    /\ cpc = "idle"
    /\ requests = 0
    /\ retry_total = RETRY_TOTAL
    /\ last = NoReply
    /\ cBody = NoBody
    /\ cResult = NoResult
    /\ cErrors = 0

SearchIdle ==
    /\ pc = "idle"
    /\ today = 0
    /\ params = NoParams
    /\ session = "none"
    /\ date_range = <<>>
    /\ times = <<>>
    /\ position = NoCell
    /\ calls = <<>>
    /\ failed = {}
    /\ all_records = <<>>
    /\ total_requests = 0
    /\ completed_requests = 0
    /\ progress = <<>>
    /\ df = NoFrame

-----------------------------------------------------------------------------
(* States and steps of the record processor *)

InitFormat ==
    /\ fpc = "input"
    /\ fResponse \in Responses
    /\ fDate \in {DateStr(1), DateStr(2)}
    /\ fRecords = <<>>
    /\ fLegacy = [raised |-> "", records |-> <<>>]
    /\ FinalizeIdle
    /\ ClientIdle
    /\ SearchIdle

Format ==
    /\ fpc = "input"
    /\ fRecords' = format_tee_times(fResponse, fDate)
    /\ fLegacy' = legacy_format_tee_times(fResponse, fDate)
    /\ fpc' = "done"
    /\ UNCHANGED <<fResponse, fDate, finalizeVars, clientVars, searchVars>>

NextFormat == Format

SpecFormat == InitFormat /\ [][NextFormat]_vars

InitFinalize ==
    /\ rpc = "input"
    /\ rRecords \in SeqsUpTo(RecordUniverse, MaxRecs)
    /\ rPermuted = <<>>
    /\ rDf = DataFrame(<<>>)
    /\ rDfPermuted = DataFrame(<<>>)
    /\ FormatIdle
    /\ ClientIdle
    /\ SearchIdle

Finalize ==
    /\ rpc = "input"
    /\ \E p \in Orderings(Len(rRecords)) :
        /\ rPermuted' = Permuted(rRecords, p)
        /\ rDfPermuted' = records_to_dataframe(Permuted(rRecords, p))
    /\ rDf' = records_to_dataframe(rRecords)
    /\ rpc' = "done"
    /\ UNCHANGED <<rRecords, formatVars, clientVars, searchVars>>

NextFinalize == Finalize

SpecFinalize == InitFinalize /\ [][NextFinalize]_vars

-----------------------------------------------------------------------------
(* States and steps of one fetch_tee_times call *)

\* fetch_tee_times has been called on a fresh session
InitClient ==
    /\ cpc = "sending"
    /\ requests = 0
    /\ retry_total = RETRY_TOTAL
    /\ last = NoReply
    /\ cBody = NoBody
    /\ cResult = NoResult
    /\ cErrors = 0
    /\ FormatIdle
    /\ FinalizeIdle
    /\ SearchIdle

\* the reply is a failure the adapter counts against Retry.total: retry, or
\* give up with MaxRetryError once the total is below zero
RetryOrGiveUp(reply) ==
    /\ retry_total' = retry_total - 1
    /\ cBody' = cBody
    /\ IF retry_total - 1 < 0
       THEN /\ cpc' = "raised"
            /\ cResult' = QDLAPIError("RequestException")
            /\ cErrors' = cErrors + 1
       ELSE /\ cpc' = "sending"
            /\ UNCHANGED <<cResult, cErrors>>

\* response.raise_for_status() on an error status: HTTPError
RaiseForStatus(reply) ==
    /\ retry_total' = retry_total
    /\ cBody' = cBody
    /\ cpc' = "raised"
    /\ cResult' = QDLAPIError("RequestException")
    /\ cErrors' = cErrors + 1

\* response.json() and model_validate on the body of a reply that is no error
ParseAndValidate(body) ==
    /\ retry_total' = retry_total
    /\ cBody' = body
    /\ IF body.shape = "notjson"
       THEN /\ cpc' = "raised"
            /\ cResult' = QDLAPIError("RequestException")
            /\ cErrors' = cErrors + 1
       ELSE IF ~ model_validate(body).ok
       THEN /\ cpc' = "raised"
            /\ cResult' = QDLAPIError("ValidationError")
            /\ cErrors' = cErrors + 1
       ELSE /\ cpc' = "returned"
            /\ cResult' = Returned(model_validate(body).v)
            /\ cErrors' = cErrors

\* one request of session.get and everything the call does with its reply
Attempt ==
    /\ cpc = "sending"
    /\ \E reply \in Replies :
        /\ requests' = requests + 1
        /\ last' = reply
        /\ IF reply.kind = "neterr"
              \/ is_retry(reply.status, reply.retry_after, retry_total)
           THEN RetryOrGiveUp(reply)
           ELSE IF reply.status >= 400
           THEN RaiseForStatus(reply)
           ELSE \E body \in Bodies : ParseAndValidate(body)
    /\ UNCHANGED <<formatVars, finalizeVars, searchVars>>

NextClient == Attempt

SpecClient == InitClient /\ [][NextClient]_vars

-----------------------------------------------------------------------------
(* States and steps of a run of main *)

Init ==
    /\ pc = "main"
    /\ today \in {0, 1}
    /\ params = NoParams
    /\ session = "none"
    /\ date_range = <<>>
    /\ times = <<>>
    /\ position = NoCell
    /\ calls = <<>>
    /\ failed = {}
    /\ all_records = <<>>
    /\ total_requests = 0
    /\ completed_requests = 0
    /\ progress = <<>>
    /\ df = NoFrame
    /\ FormatIdle
    /\ FinalizeIdle
    /\ ClientIdle

\* the overrides of main: a given argument replaces the setting
Overridden(settings, args) ==
    SearchParameters(
        IF args.start_date.kind = "iso" THEN args.start_date.day
                                        ELSE settings.start_date,
        IF args.end_date.kind = "iso" THEN args.end_date.day
                                      ELSE settings.end_date,
        IF args.start_hour.given THEN args.start_hour.hour ELSE settings.start_hour,
        IF args.end_hour.given THEN args.end_hour.hour ELSE settings.end_hour,
        IF args.players # 0 THEN args.players ELSE settings.n_players,
        parse_course_selection(args.courses))

\* main up to "Validate parameters": any exception ends the run with status 1
Main ==
    /\ pc = "main"
    /\ \E settings \in Settings, args \in CommandLines :
        IF ~ SearchParametersValid(settings.start_hour, settings.end_hour,
                                   settings.n_players)
        THEN /\ pc' = "exit1"
             /\ params' = params
        ELSE IF args.start_date.kind = "malformed"
                \/ args.end_date.kind = "malformed"
        THEN /\ pc' = "exit1"
             /\ params' = params
        ELSE /\ params' = Overridden(settings, args)
             /\ pc' = IF validate_date_range(Overridden(settings, args).start_date,
                                             Overridden(settings, args).end_date,
                                             today) = ""
                      THEN "validated"
                      ELSE "exit1"
    /\ UNCHANGED <<today, session, date_range, times, position, calls, failed,
                   all_records, total_requests, completed_requests, progress, df>>
    /\ UNCHANGED <<formatVars, finalizeVars, clientVars>>

\* with QDLAPIClient(config) as client: fetch_all_tee_times up to its loops
StartSearch ==
    /\ pc = "validated"
    /\ session' = "open"
    /\ date_range' = DateRange(params.start_date, params.end_date)
    /\ times' = TimeRange(params.start_hour, params.end_hour)
    /\ total_requests' = Len(date_range') * Len(times') * Len(params.course_ids)
    /\ completed_requests' = 0
    /\ all_records' = <<>>
    /\ position' = FirstCell(Len(date_range'), Len(times'), Len(params.course_ids))
    /\ pc' = "search"
    /\ UNCHANGED <<today, params, calls, failed, progress, df>>
    /\ UNCHANGED <<formatVars, finalizeVars, clientVars>>

\* one pass through the body of the innermost loop.  fetch_tee_times either
\* returns the validated response or raises QDLAPIError: it turns every
\* exception into one.
FetchCell ==
    /\ pc = "search"
    /\ position # NoCell
    /\ \E raised \in {"", "QDLAPIError"} :
        /\ raised # "" => Cardinality(failed) < MaxFail
        /\ calls' = Append(calls, [date |-> date_range[position.d],
                                   time |-> times[position.t],
                                   course |-> params.course_ids[position.c],
                                   players |-> params.n_players])
        /\ IF raised = ""
           THEN /\ all_records' =
                    all_records \o
                    format_tee_times(
                        ProviderResponse(params.start_hour + position.t - 1,
                                         params.course_ids[position.c],
                                         params.n_players),
                        date_range[position.d])
                /\ failed' = failed
           ELSE /\ all_records' = all_records
                /\ failed' = failed \cup {Len(calls) + 1}
        /\ IF raised = "" \/ Catches(raised)
           THEN /\ completed_requests' = completed_requests + 1
                /\ progress' =
                    IF ReportsProgress(completed_requests + 1)
                    THEN Append(progress,
                                <<completed_requests + 1, total_requests>>)
                    ELSE progress
                /\ position' = NextCell(position, Len(date_range), Len(times),
                                        Len(params.course_ids))
                /\ UNCHANGED <<pc, session>>
           ELSE /\ pc' = "exit1"
                /\ session' = "closed"
                /\ UNCHANGED <<completed_requests, progress, position>>
    /\ UNCHANGED <<today, params, date_range, times, total_requests, df>>
    /\ UNCHANGED <<formatVars, finalizeVars, clientVars>>

\* return processor.records_to_dataframe(all_records), and the client closes
ReturnSearch ==
    /\ pc = "search"
    /\ position = NoCell
    /\ df' = records_to_dataframe(all_records)
    /\ session' = "closed"
    /\ pc' = "found"
    /\ UNCHANGED <<today, params, date_range, times, position, calls, failed,
                   all_records, total_requests, completed_requests, progress>>
    /\ UNCHANGED <<formatVars, finalizeVars, clientVars>>

\* save_dataframe: .csv, .xlsx and .json are written, anything else raises
Supported(extension) == extension \in {".csv", ".xlsx", ".json"}

\* the output step of main
Finish ==
    /\ pc = "found"
    /\ \E output \in {"", ".csv", ".txt"} :
        pc' = IF output = "" \/ Supported(output) THEN "exit0" ELSE "exit1"
    /\ UNCHANGED <<today, params, session, date_range, times, position, calls,
                   failed, all_records, total_requests, completed_requests,
                   progress, df>>
    /\ UNCHANGED <<formatVars, finalizeVars, clientVars>>

Next == Main \/ StartSearch \/ FetchCell \/ ReturnSearch \/ Finish

Spec == Init /\ [][Next]_vars

-----------------------------------------------------------------------------
(* Properties of the record processor *)

Range(s) == {s[i] : i \in 1..Len(s)}

\* the start_hole the slot's start_nine stands for: 1 -> 1, 2 -> 10, else 1
ExpectedStartHole(start_nine) ==
    CASE start_nine = 1 -> 1
      [] start_nine = 2 -> 10
      [] OTHER -> 1

\* C3: format_tee_times gives exactly one record per slot of the response, in
\* slot order, and the record's start_hole is 1 for start_nine 1, 10 for
\* start_nine 2 and 1 for every other start_nine.
C3_OneRecordPerSlotWithFallbackToFront ==
    fpc = "done" =>
        /\ Len(fRecords) = Len(fResponse.availabilities)
        /\ \A i \in 1..Len(fRecords) :
            /\ fRecords[i].time = fResponse.availabilities[i].time
            /\ fRecords[i].price = fResponse.availabilities[i].price
            /\ fRecords[i].players = fResponse.availabilities[i].players
            /\ fRecords[i].start_hole =
                    ExpectedStartHole(fResponse.availabilities[i].start_nine)

\* <= on (date, time, course), field by field, as strings
StrLeq(a, b) == a = b \/ StrLess(a, b)
LexLeq(r, s) ==
    IF r.date # s.date THEN StrLess(r.date, s.date)
    ELSE IF r.time # s.time THEN StrLess(r.time, s.time)
    ELSE StrLeq(r.course, s.course)

\* no two different records of the sequence agree on (date, time, course)
NoKeyTies(records) ==
    \A i, j \in 1..Len(records) :
        SortKey(records[i]) = SortKey(records[j]) => records[i] = records[j]

\* C4 as claimed: records_to_dataframe gives the same sequence for a list of
\* records and for every permutation of it, also when different records
\* share the same (date, time, course).
C4_AnyPermutationSameSequence ==
    rpc = "done" => rDfPermuted = rDf

\* C4 as amended: for a list of records and every permutation of it the two
\* outputs hold the same records, have the same length and agree position by
\* position on (date, time, course); they are the same sequence whenever no
\* two different input records share the same (date, time, course).
C4_PermutationSameUpToTies ==
    rpc = "done" =>
        /\ rDfPermuted.columns = rDf.columns
        /\ Range(rDfPermuted.rows) = Range(rDf.rows)
        /\ Len(rDfPermuted.rows) = Len(rDf.rows)
        /\ \A i \in 1..Len(rDf.rows) :
            i <= Len(rDfPermuted.rows) =>
                SortKey(rDfPermuted.rows[i]) = SortKey(rDf.rows[i])
        /\ NoKeyTies(rRecords) => rDfPermuted = rDf

\* a permuted input of three different records without key ties
C4_Witness ==
    /\ rpc = "done"
    /\ rPermuted # rRecords
    /\ Cardinality(Range(rRecords)) = 3
    /\ NoKeyTies(rRecords)
    /\ rDfPermuted = rDf

\* C5: the output of records_to_dataframe holds each distinct input record
\* exactly once: equal records collapse to one, records that differ in any
\* field both survive, and nothing that is not in the input appears.
C5_EachDistinctRecordOnce ==
    rpc = "done" =>
        /\ Range(rDf.rows) = Range(rRecords)
        /\ \A i, j \in 1..Len(rDf.rows) : rDf.rows[i] = rDf.rows[j] => i = j

\* an input with a repeated record and with two records that differ only in
\* the price
C5_Witness ==
    /\ rpc = "done"
    /\ Len(rRecords) > Cardinality(Range(rRecords))
    /\ \E r, s \in Range(rDf.rows) :
        /\ r.price # s.price
        /\ [r EXCEPT !.price = s.price] = s

\* C6: the output of records_to_dataframe is non-decreasing in
\* (date, time, course) compared lexicographically, and for empty input it
\* is an empty frame with the six columns.
C6_SortedByDateTimeCourse ==
    rpc = "done" =>
        /\ \A i, j \in 1..Len(rDf.rows) :
            i < j => LexLeq(rDf.rows[i], rDf.rows[j])
        /\ rRecords = <<>> => rDf.rows = <<>> /\ rDf.columns = Columns

\* an input of three records in descending order
C6_Witness ==
    /\ rpc = "done"
    /\ Len(rDf.rows) = 3
    /\ ~ LexLeq(rRecords[1], rRecords[2])
    /\ ~ LexLeq(rRecords[2], rRecords[3])

-----------------------------------------------------------------------------
(* Properties of one fetch_tee_times call *)

\* network error, or HTTP 429/500/502/503/504
TransientFailure(reply) ==
    \/ reply.kind = "neterr"
    \/ reply.kind = "http" /\ reply.status \in {429, 500, 502, 503, 504}

\* an HTTP error status outside 429/500/502/503/504
PermanentFailure(reply) ==
    reply.kind = "http" /\ reply.status >= 400 /\ ~ TransientFailure(reply)

\* a 413 that carries a Retry-After header
PayloadTooLargeRetryAfter(reply) ==
    reply.kind = "http" /\ reply.status = 413 /\ reply.retry_after

CallEnded == cpc \in {"returned", "raised"}

\* C7 as claimed: the call has a budget of 3 attempts: a transient failure
\* is retried while budget remains, no more than 3 requests are ever sent,
\* the call that runs out of budget ends with exactly one QDLAPIError, two
\* transient failures and then a success return the response without error,
\* and an HTTP error status that is not retried ends the call with
\* QDLAPIError at once.
C7_ThreeAttemptBudget ==
    /\ requests <= 3
    /\ (requests >= 1 /\ requests < 3 /\ TransientFailure(last)) => cpc = "sending"
    /\ (requests = 3 /\ TransientFailure(last)) =>
            cpc = "raised" /\ cErrors = 1
    /\ cpc = "raised" => cErrors = 1 /\ cResult.kind = "QDLAPIError"
    /\ cpc = "returned" => cErrors = 0 /\ cResult.kind = "response"
    /\ (PermanentFailure(last) /\ ~ PayloadTooLargeRetryAfter(last))
        => cpc = "raised" /\ cErrors = 1

\* C7 as amended: the call sends one request and retries it up to 3 times,
\* so no more than 4 requests are ever sent.  A request that ends in a
\* network error, in HTTP 429/500/502/503/504 or in a 413 carrying
\* Retry-After is retried while fewer than 4 requests have been sent, so a
\* server that fails twice (or three times) and then succeeds yields a
\* returned response with no QDLAPIError; when the 4th request fails too,
\* the call ends with exactly one QDLAPIError.  Any other HTTP error status
\* ends the call with exactly one QDLAPIError and no further request.
C7_ThreeRetriesFourRequests ==
    /\ requests <= 4
    /\ (requests >= 1 /\ requests < 4
            /\ (TransientFailure(last) \/ PayloadTooLargeRetryAfter(last)))
        => cpc = "sending" /\ cErrors = 0
    /\ (requests = 4 /\ (last.kind = "neterr" \/ last.status >= 400))
        => cpc = "raised" /\ cErrors = 1
    /\ cpc = "raised" => cErrors = 1 /\ cResult.kind = "QDLAPIError"
    /\ cpc = "returned" =>
            /\ cErrors = 0
            /\ cResult.kind = "response"
            /\ last.kind = "http" /\ last.status = 200
    /\ (PermanentFailure(last) /\ ~ PayloadTooLargeRetryAfter(last))
        => cpc = "raised" /\ cErrors = 1
    /\ cpc = "sending" =>
            requests = 0 \/ TransientFailure(last) \/ PayloadTooLargeRetryAfter(last)

\* two failed requests, and the third one returned the response
C7_Witness ==
    /\ cpc = "returned"
    /\ requests = 3
    /\ retry_total = 1

\* what the body's schema asks for: an object with a string `name` and an
\* array `availabilities` of objects with a string `time`, a number `price`
\* and integer `players` and `start_nine`
IsJsonNumber(j) == j.k \in {"int", "float"}
IsJsonInteger(j) == j.k = "int" \/ (j.k = "float" /\ j.v % 100 = 0)
SlotOfSchema(item) ==
    /\ item.k = "object"
    /\ item.time.k = "str"
    /\ IsJsonNumber(item.price)
    /\ IsJsonInteger(item.players)
    /\ IsJsonInteger(item.start_nine)
BodyOfSchema(body) ==
    /\ body.shape = "object"
    /\ body.name.k = "str"
    /\ body.availabilities.k = "array"
    /\ \A i \in 1..Len(body.availabilities.items) :
            SlotOfSchema(body.availabilities.items[i])

BodyReceived == CallEnded /\ last.kind = "http" /\ last.status = 200

IsDigitString(j) == j.k = "str" /\ IsDigits(j.v)
SlotAccepted(item) ==
    /\ item.k = "object"
    /\ item.time.k = "str"
    /\ IsJsonNumber(item.price) \/ IsDigitString(item.price)
    /\ IsJsonInteger(item.players) \/ IsDigitString(item.players)
    /\ IsJsonInteger(item.start_nine) \/ IsDigitString(item.start_nine)
BodyAccepted(body) ==
    /\ body.shape = "object"
    /\ body.name.k = "str"
    /\ \/ body.availabilities.k = "absent"
       \/ /\ body.availabilities.k = "array"
          /\ \A i \in 1..Len(body.availabilities.items) :
                SlotAccepted(body.availabilities.items[i])

-----------------------------------------------------------------------------
(* Properties of a run of main and of the search *)

\* the grid of the parameters, counted independently of the loops
GridDates   == IF params.end_date >= params.start_date
               THEN params.end_date - params.start_date + 1 ELSE 0
GridHours   == IF params.end_hour >= params.start_hour
               THEN params.end_hour - params.start_hour + 1 ELSE 0
GridCourses == Len(params.course_ids)
GridSize    == GridDates * GridHours * GridCourses

\* the hour h written as HH:00
HourString(h) == <<48 + (h \div 10), 48 + (h % 10), 58, 48, 48>>

GridHour(i) == params.start_hour + (((i - 1) \div GridCourses) % GridHours)

\* the i-th cell with the date outermost, then the hour, then the course
GridCall(i) ==
    [date |-> DateStr(params.start_date + ((i - 1) \div (GridHours * GridCourses))),
     time |-> HourString(GridHour(i)),
     course |-> params.course_ids[((i - 1) % GridCourses) + 1],
     players |-> params.n_players]

\* the records formatted from the first n cells that did not fail
RECURSIVE RecordsOfSuccessfulCells(_)
RecordsOfSuccessfulCells(n) ==
    IF n = 0 THEN <<>>
    ELSE IF n \in failed THEN RecordsOfSuccessfulCells(n - 1)
    ELSE RecordsOfSuccessfulCells(n - 1) \o
         format_tee_times(
            ProviderResponse(GridHour(n), GridCall(n).course, params.n_players),
            GridCall(n).date)

SearchStarted  == session # "none"
SearchReturned == df # NoFrame

\* C1: whichever cells fail, fetch_all_tee_times visits all N cells, returns
\* without raising, and returns the frame of exactly the records formatted
\* from the cells that did not fail.
C1_FailedCellsAreSkipped ==
    SearchStarted =>
        /\ failed \subseteq 1..Len(calls)
        /\ all_records = RecordsOfSuccessfulCells(Len(calls))
        /\ pc # "search" =>
                /\ Len(calls) = GridSize
                /\ SearchReturned
                /\ df = records_to_dataframe(RecordsOfSuccessfulCells(GridSize))

\* the first cell and a later one failed, and the search returned the
\* records of the others
C1_Witness ==
    /\ pc = "found"
    /\ GridSize = 12
    /\ failed = {1, 7}
    /\ Len(df.rows) > 0

\* C2: fetch_all_tee_times calls the client exactly once per cell of the
\* grid, with the hour written HH:00, date outermost, then hour, then
\* course, |dates| x |hours| x |courses| calls in all.
C2_CallsFollowTheGridInNestedOrder ==
    SearchStarted =>
        /\ Len(calls) <= GridSize
        /\ \A i \in 1..Len(calls) : calls[i] = GridCall(i)
        /\ total_requests = GridSize
        /\ pc # "search" => Len(calls) = GridSize

\* a finished search over three dates, two hours and three courses
C2_Witness ==
    /\ pc = "found"
    /\ GridDates = 3 /\ GridHours = 2 /\ GridCourses = 3
    /\ Len(calls) = 18

InvalidParameters ==
    \/ params.end_date < params.start_date
    \/ params.start_date < today
    \/ params.start_hour < 0 \/ params.start_hour > 23
    \/ params.end_hour < 0 \/ params.end_hour > 23
    \/ params.start_hour > params.end_hour

\* C9: a run whose parameters after the CLI overrides have the end date
\* before the start date, a start date in the past or invalid hour bounds
\* ends with status 1 before any API client is created and before any
\* fetch: past the validation step such a run is at exit 1 and nowhere else.
C9_InvalidParametersEndTheRunBeforeTheSearch ==
    (params.built /\ InvalidParameters) =>
        /\ pc \in {"validated", "exit1"}
        /\ session = "none"
        /\ calls = <<>>

\* the progress reports a run has printed when it reports at every multiple
\* of `step`
ReportsUpTo(completed, step) ==
    [k \in 1..(completed \div step) |-> <<k * step, total_requests>>]

\* C10 as claimed: the counter starts at 0, grows by 1 with every cell,
\* failed or not, never exceeds total_requests and equals it when the search
\* returns, and a progress report follows every cell.
C10_ProgressReportedAfterEveryCell ==
    SearchStarted =>
        /\ completed_requests = Len(calls)
        /\ completed_requests <= total_requests
        /\ pc # "search" => completed_requests = total_requests
        /\ progress = ReportsUpTo(completed_requests, 1)

\* C10 as amended: the counter starts at 0, grows by 1 with every cell,
\* failed or not, never exceeds total_requests and equals it when the search
\* returns; a progress report follows a cell only when the counter it
\* reaches is a multiple of 10.
C10_ProgressReportedEveryTenthCell ==
    SearchStarted =>
        /\ completed_requests = Len(calls)
        /\ completed_requests <= total_requests
        /\ pc # "search" => completed_requests = total_requests
        /\ progress = ReportsUpTo(completed_requests, 10)

\* twelve cells done, one of them failed, one report printed
C10_Witness ==
    /\ pc = "found"
    /\ completed_requests = 12
    /\ failed # {}
    /\ progress = << <<10, 12>> >>

====
